---- MODULE Spec2Model ----
(***************************************************************************)
(* Task recovery and state consistency of Auto-Claude                      *)
(* (apps/backend/services/task_recovery.py, task_state.py).                *)
(*                                                                         *)
(* Several polling processes call recover_if_stuck and start_coding on the *)
(* tasks they know; a worker calls touch_activity.  The shared state is    *)
(* the filesystem: task_state.json, the .lock file, the worktree directory *)
(* and the .task_activity marker of every task.  Time is counted in        *)
(* minutes.                                                                *)
(***************************************************************************)
EXTENDS Integers, FiniteSets, Sequences, TLC

\* ------------------------------------------------------------------ bounds

\* Number of polling processes.
NumProcs == 2
\* Minutes by which one step of the clock advances.
TickMinutes == 60
\* Number of clock steps after the initial instant.
MaxTicks == 2

\* ------------------------------------------------------- program constants

ZOMBIE_THRESHOLD_HOURS == 2
MAX_RECOVERY_ATTEMPTS == 5

RECOVERY_ACTION_NONE == "no_action"
RECOVERY_ACTION_RESET_TO_READY == "reset_to_ready"
RECOVERY_ACTION_RESET_TO_BACKLOG == "reset_to_backlog"
RECOVERY_ACTION_UPDATE_TO_CODING == "update_to_coding"
RECOVERY_ACTION_MARK_FAILED == "mark_failed"
RECOVERY_ACTION_ZOMBIE_CLEANUP == "zombie_cleanup"
RECOVERY_ACTION_LOCK_FAILED == "lock_failed"
RECOVERY_ACTION_NO_STATE == "no_state"

START_CODING_SUCCESS == "success"
START_CODING_LOCK_FAILED == "lock_failed"
START_CODING_NO_STATE == "no_state"
START_CODING_WRONG_STATUS == "wrong_status"
START_CODING_WORKTREE_FAILED == "worktree_failed"
START_CODING_MAX_RETRIES == "max_retries"

\* The failure_reason written when the retry limit is exceeded (an f-string
\* over MAX_RECOVERY_ATTEMPTS).
MaxRetriesReason == "Maximum recovery attempts (5) exceeded"

\* ------------------------------------------------------------ value spaces

Procs == 1..NumProcs
Tasks == {"T1", "T2"}
Statuses == {"backlog", "planning", "ready", "coding", "done", "failed"}

\* Python's None, for failure_reason and for the result of load_state.
NoReason == "<None>"
None == [none |-> TRUE]

\* An ISO-8601 string: unparseable, or a wall-clock minute that either carries
\* a UTC offset in minutes ("aware") or no offset at all ("naive").
BadTimestamp == [kind |-> "bad", wall |-> 0, offset |-> 0]
Timestamp(kind, wall, offset) == [kind |-> kind, wall |-> wall, offset |-> offset]

\* The zombie threshold, timedelta(hours=ZOMBIE_THRESHOLD_HOURS), in minutes.
Threshold == ZOMBIE_THRESHOLD_HOURS * 60

\* The first instant of the model and the last the clock can reach.
StartTime == Threshold
EndTime == StartTime + MaxTicks * TickMinutes

\* Contents of task_state.json that are no usable record.
FileAbsent == [file |-> "absent"]
FileCorruptJson == [file |-> "corrupt_json"]
FileMissingField == [file |-> "missing_field"]
Unusable == {FileAbsent, FileCorruptJson, FileMissingField}

\* The activity marker is absent, or has a modification time.
NoMarker == 0 - 1

TaskState(task_id, status, recovery_attempts, last_activity, failure_reason) ==
    [task_id |-> task_id, status |-> status,
     recovery_attempts |-> recovery_attempts,
     last_activity |-> last_activity, failure_reason |-> failure_reason]

VARIABLES
    tasks,      \* the task ids the pollers enumerate
    file,       \* file[t]: content of {state_dir}/t/task_state.json
    temp,       \* temp[t]: content of {state_dir}/t/task_state.tmp
    worktree,   \* worktree[t]: the directory .worktrees/t exists
    marker,     \* marker[t]: mtime of .worktrees/t/.task_activity, or NoMarker
    lock,       \* lock[t]: the processes holding the flock on {state_dir}/t/.lock
    now,        \* the clock, in minutes
    pc,         \* pc[p]: where process p is in its current call
    op,         \* op[p]: the function process p is executing
    arg,        \* arg[p]: its task_id argument
    acquired,   \* acquired[p]: the value task_lock yielded to p
    state,      \* state[p]: the local variable `state` of the call
    result      \* result[p]: the value the call is about to return

vars == <<tasks, file, temp, worktree, marker, lock, now, pc, op, arg, acquired, state, result>>

\* ------------------------------------------------------------- task_state.py

\* datetime.now(timezone.utc).isoformat(): an aware string with offset +00:00.
utc_now(clock) == Timestamp("aware", clock, 0)

\* A save that writes every record to the file of task T1.
save_state_onePath(f, s) == [f EXCEPT !["T1"] = s]

\* save_state writes the record under its own task_id.
save_state(f, s) == [f EXCEPT ![s.task_id] = s]

\* A load that makes up a blank backlog record where the file is unusable.
load_state_default(f, task_id) ==
    IF f[task_id] \in Unusable
    THEN TaskState(task_id, "backlog", 0, BadTimestamp, NoReason)
    ELSE f[task_id]

\* load_state returns None for a missing, corrupt or incomplete file.
load_state(f, task_id) == IF f[task_id] \in Unusable THEN None ELSE f[task_id]

\* --------------------------------------------------------- task_recovery.py

\* A shared instead of an exclusive lock: it is granted whoever holds it.
lock_granted_shared(holders) == TRUE

\* portalocker.Lock(LOCK_EX | LOCK_NB).acquire(): the lock is granted only when
\* no other open file holds it.
lock_granted(holders) == holders = {}

\* A release that leaves the lock with its holder.
lock_released_kept(holders, p) == holders

\* lock.release() in the finally clause: gives up what this process holds.
lock_released(holders, p) == holders \ {p}

worktree_exists(wt, task_id) == wt[task_id]

\* datetime.fromisoformat followed by the naive-to-UTC replacement: the UTC
\* minute the string denotes.  A naive string is read as UTC as it stands; an
\* aware one is shifted by its offset when it is subtracted from now.
ParsedUtc(ts) == IF ts.kind = "naive" THEN ts.wall ELSE ts.wall - ts.offset

\* A marker file that exists but whose stat() raises OSError.
MarkerUnreadable == 0 - 2

\* The zombie check that takes an unreadable marker for a sign of life.
is_zombie_unreadableAlive(s, clock, mk) ==
    IF s.last_activity.kind = "bad" THEN TRUE
    ELSE IF clock - ParsedUtc(s.last_activity) < Threshold THEN FALSE
    ELSE IF mk = NoMarker THEN TRUE
    ELSE IF mk = MarkerUnreadable THEN FALSE
    ELSE clock - mk >= Threshold

\* The zombie check with the threshold itself still counted as alive.
is_zombie_strictBoundary(s, clock, mk) ==
    IF s.last_activity.kind = "bad" THEN TRUE
    ELSE IF clock - ParsedUtc(s.last_activity) <= Threshold THEN FALSE
    ELSE IF mk = NoMarker THEN TRUE
    ELSE IF mk = MarkerUnreadable THEN TRUE
    ELSE clock - mk > Threshold

\* The zombie check on the timestamp alone, the activity marker ignored.
is_zombie_timestampOnly(s, clock, mk) ==
    IF s.last_activity.kind = "bad" THEN TRUE
    ELSE clock - ParsedUtc(s.last_activity) >= Threshold

\* is_zombie: last_activity unparseable, or old with the marker missing or old.
is_zombie(s, clock, mk) ==
    IF s.last_activity.kind = "bad" THEN TRUE
    ELSE IF clock - ParsedUtc(s.last_activity) < Threshold THEN FALSE
    ELSE IF mk = NoMarker THEN TRUE
    ELSE IF mk = MarkerUnreadable THEN TRUE
    ELSE clock - mk >= Threshold

\* _remove_worktree: "git worktree remove --force".  ok is the outcome of the
\* git call; the directory goes away, with the marker inside it, only when it
\* succeeds.  The function pairs the new worktree and marker maps.
remove_worktree(wt, mk, task_id, ok) ==
    IF wt[task_id] /\ ok
    THEN <<[wt EXCEPT ![task_id] = FALSE], [mk EXCEPT ![task_id] = NoMarker]>>
    ELSE <<wt, mk>>

\* _create_worktree.  branch_ok: a base branch could be determined; rm_ok: the
\* removal of a pre-existing worktree succeeded; add_ok: "git worktree add"
\* succeeded.  Yields <<returned value, new worktree map, new marker map>>.
create_worktree(wt, mk, task_id, branch_ok, rm_ok, add_ok) ==
    IF ~branch_ok THEN <<FALSE, wt, mk>>
    ELSE LET cleared == remove_worktree(wt, mk, task_id, rm_ok)
         IN  <<add_ok,
               [cleared[1] EXCEPT ![task_id] = @ \/ add_ok],
               cleared[2]>>

\* touch_activity: mkdir(parents=True) of the marker's directory, then touch.
touched_worktree(wt, task_id) == [wt EXCEPT ![task_id] = TRUE]
touched_marker(mk, task_id, clock) == [mk EXCEPT ![task_id] = clock]

\* The limit compared with > instead of >=.
ExceededMax_strict(s) == s.recovery_attempts > MAX_RECOVERY_ATTEMPTS

\* recover_if_stuck and start_coding: the retry limit is reached.
ExceededMax(s) == s.recovery_attempts >= MAX_RECOVERY_ATTEMPTS

\* The record marked failed with the attempt counted once more.
MarkedFailed_counted(s, clock) ==
    [s EXCEPT !.status = "failed",
              !.recovery_attempts = @ + 1,
              !.failure_reason = MaxRetriesReason,
              !.last_activity = utc_now(clock)]

\* The record marked failed without a failure_reason.
MarkedFailed_noReason(s, clock) ==
    [s EXCEPT !.status = "failed",
              !.last_activity = utc_now(clock)]

\* The limit branch that writes the reason and leaves the status as it was.
MarkedFailed_stillLive(s, clock) ==
    [s EXCEPT !.failure_reason = MaxRetriesReason,
              !.last_activity = utc_now(clock)]

\* recover_if_stuck, limit exceeded: the record marked failed.
MarkedFailed(s, clock) ==
    [s EXCEPT !.status = "failed",
              !.failure_reason = MaxRetriesReason,
              !.last_activity = utc_now(clock)]

\* The reset to ready without counting the attempt.
ResetToReady_uncounted(s, clock) ==
    [s EXCEPT !.status = "ready",
              !.last_activity = utc_now(clock)]

\* The reset to ready that clears failure_reason.
ResetToReady_cleared(s, clock) ==
    [s EXCEPT !.status = "ready",
              !.recovery_attempts = @ + 1,
              !.last_activity = utc_now(clock),
              !.failure_reason = NoReason]

\* Case 1 (coding without worktree): the record reset to ready.
ResetToReady(s, clock) ==
    [s EXCEPT !.status = "ready",
              !.recovery_attempts = @ + 1,
              !.last_activity = utc_now(clock)]

\* The zombie reset that leaves last_activity stale.
ZombieReset_stale(s, clock) ==
    [s EXCEPT !.status = "ready",
              !.recovery_attempts = @ + 1]

\* Case 2 (zombie with worktree): the record reset to ready.
ZombieReset(s, clock) ==
    [s EXCEPT !.status = "ready",
              !.recovery_attempts = @ + 1,
              !.last_activity = utc_now(clock)]

\* The sync to coding counted as a recovery attempt.
SyncedToCoding_counted(s, clock) ==
    [s EXCEPT !.status = "coding",
              !.recovery_attempts = @ + 1,
              !.last_activity = utc_now(clock)]

\* The sync to coding that leaves last_activity as it was.
SyncedToCoding_stale(s, clock) ==
    [s EXCEPT !.status = "coding"]

\* Case 3 (worktree without coding status): the record synced to coding.
SyncedToCoding(s, clock) ==
    [s EXCEPT !.status = "coding",
              !.last_activity = utc_now(clock)]

\* The stalled planning task reset to ready instead of backlog.
ResetToBacklog_toReady(s, clock) ==
    [s EXCEPT !.status = "ready",
              !.recovery_attempts = @ + 1,
              !.last_activity = utc_now(clock)]

\* Case 4 (planning stalled): the record reset to backlog.
ResetToBacklog(s, clock) ==
    [s EXCEPT !.status = "backlog",
              !.recovery_attempts = @ + 1,
              !.last_activity = utc_now(clock)]

\* The if-chain with the worktree test of Case 3 left out.
RecoveryAction_syncAlways(s, has_worktree, zombie) ==
    IF ExceededMax(s)
    THEN IF s.status # "failed" THEN RECOVERY_ACTION_MARK_FAILED
                                ELSE RECOVERY_ACTION_NONE
    ELSE IF s.status \in {"done", "failed"} THEN RECOVERY_ACTION_NONE
    ELSE IF s.status = "coding" /\ ~has_worktree THEN RECOVERY_ACTION_RESET_TO_READY
    ELSE IF s.status = "coding" /\ has_worktree /\ zombie THEN RECOVERY_ACTION_ZOMBIE_CLEANUP
    ELSE IF s.status = "ready" THEN RECOVERY_ACTION_UPDATE_TO_CODING
    ELSE IF s.status = "planning" /\ zombie THEN RECOVERY_ACTION_RESET_TO_BACKLOG
    ELSE RECOVERY_ACTION_NONE

\* The if-chain with Case 4 applied to backlog tasks as well.
RecoveryAction_backlogToo(s, has_worktree, zombie) ==
    IF ExceededMax(s)
    THEN IF s.status # "failed" THEN RECOVERY_ACTION_MARK_FAILED
                                ELSE RECOVERY_ACTION_NONE
    ELSE IF s.status \in {"done", "failed"} THEN RECOVERY_ACTION_NONE
    ELSE IF s.status = "coding" /\ ~has_worktree THEN RECOVERY_ACTION_RESET_TO_READY
    ELSE IF s.status = "coding" /\ has_worktree /\ zombie THEN RECOVERY_ACTION_ZOMBIE_CLEANUP
    ELSE IF s.status = "ready" /\ has_worktree THEN RECOVERY_ACTION_UPDATE_TO_CODING
    ELSE IF s.status \in {"planning", "backlog"} /\ zombie THEN RECOVERY_ACTION_RESET_TO_BACKLOG
    ELSE RECOVERY_ACTION_NONE

\* The if-chain without Case 3: a ready task with a worktree is left alone.
RecoveryAction_noSync(s, has_worktree, zombie) ==
    IF ExceededMax(s)
    THEN IF s.status # "failed" THEN RECOVERY_ACTION_MARK_FAILED
                                ELSE RECOVERY_ACTION_NONE
    ELSE IF s.status \in {"done", "failed"} THEN RECOVERY_ACTION_NONE
    ELSE IF s.status = "coding" /\ ~has_worktree THEN RECOVERY_ACTION_RESET_TO_READY
    ELSE IF s.status = "coding" /\ has_worktree /\ zombie THEN RECOVERY_ACTION_ZOMBIE_CLEANUP
    ELSE IF s.status = "planning" /\ zombie THEN RECOVERY_ACTION_RESET_TO_BACKLOG
    ELSE RECOVERY_ACTION_NONE

\* The if-chain of recover_if_stuck after the record was loaded: the action it
\* returns, given what worktree_exists and is_zombie answer.
RecoveryAction(s, has_worktree, zombie) ==
    IF ExceededMax(s)
    THEN IF s.status # "failed" THEN RECOVERY_ACTION_MARK_FAILED
                                ELSE RECOVERY_ACTION_NONE
    ELSE IF s.status \in {"done", "failed"} THEN RECOVERY_ACTION_NONE
    ELSE IF s.status = "coding" /\ ~has_worktree THEN RECOVERY_ACTION_RESET_TO_READY
    ELSE IF s.status = "coding" /\ has_worktree /\ zombie THEN RECOVERY_ACTION_ZOMBIE_CLEANUP
    ELSE IF s.status = "ready" /\ has_worktree THEN RECOVERY_ACTION_UPDATE_TO_CODING
    ELSE IF s.status = "planning" /\ zombie THEN RECOVERY_ACTION_RESET_TO_BACKLOG
    ELSE RECOVERY_ACTION_NONE

\* The cases without their return statements: after a reset to ready the
\* chain runs on into Case 3.
RecoveredState_fallthrough(s, action, clock) ==
    CASE action = RECOVERY_ACTION_MARK_FAILED      -> MarkedFailed(s, clock)
      [] action = RECOVERY_ACTION_RESET_TO_READY   ->
            SyncedToCoding(ResetToReady(s, clock), clock)
      [] action = RECOVERY_ACTION_ZOMBIE_CLEANUP   ->
            SyncedToCoding(ZombieReset(s, clock), clock)
      [] action = RECOVERY_ACTION_UPDATE_TO_CODING -> SyncedToCoding(s, clock)
      [] action = RECOVERY_ACTION_RESET_TO_BACKLOG -> ResetToBacklog(s, clock)
      [] OTHER                                     -> s

\* The record recover_if_stuck holds when it returns the given action.
RecoveredState(s, action, clock) ==
    CASE action = RECOVERY_ACTION_MARK_FAILED      -> MarkedFailed(s, clock)
      [] action = RECOVERY_ACTION_RESET_TO_READY   -> ResetToReady(s, clock)
      [] action = RECOVERY_ACTION_ZOMBIE_CLEANUP   -> ZombieReset(s, clock)
      [] action = RECOVERY_ACTION_UPDATE_TO_CODING -> SyncedToCoding(s, clock)
      [] action = RECOVERY_ACTION_RESET_TO_BACKLOG -> ResetToBacklog(s, clock)
      [] OTHER                                     -> s

\* The counter assigned instead of incremented.
CreationFailed_assigned(s, clock) ==
    [s EXCEPT !.recovery_attempts = 1,
              !.last_activity = utc_now(clock)]

\* The checks without the retry limit.
StartCodingCheck_noLimit(s) ==
    IF s = None THEN START_CODING_NO_STATE
    ELSE IF s.status # "ready" THEN START_CODING_WRONG_STATUS
    ELSE "proceed"

\* The checks with the status tested before the retry limit.
StartCodingCheck_statusFirst(s) ==
    IF s = None THEN START_CODING_NO_STATE
    ELSE IF s.status # "ready" THEN START_CODING_WRONG_STATUS
    ELSE IF ExceededMax(s) THEN START_CODING_MAX_RETRIES
    ELSE "proceed"

\* start_coding's checks on the loaded record, in the order of the code: the
\* value it returns at once, or "proceed".
StartCodingCheck(s) ==
    IF s = None THEN START_CODING_NO_STATE
    ELSE IF ExceededMax(s) THEN START_CODING_MAX_RETRIES
    ELSE IF s.status # "ready" THEN START_CODING_WRONG_STATUS
    ELSE "proceed"

\* The failed creation that is not counted as an attempt.
CreationFailed_uncounted(s, clock) ==
    [s EXCEPT !.last_activity = utc_now(clock)]

\* start_coding, worktree creation failed: the attempt is counted.
CreationFailed(s, clock) ==
    [s EXCEPT !.recovery_attempts = @ + 1,
              !.last_activity = utc_now(clock)]

\* The move to coding counted as a recovery attempt.
StartedCoding_counted(s, clock) ==
    [s EXCEPT !.status = "coding",
              !.recovery_attempts = @ + 1,
              !.last_activity = utc_now(clock)]

\* The move to coding that leaves last_activity as it was.
StartedCoding_stale(s, clock) ==
    [s EXCEPT !.status = "coding"]

\* start_coding, worktree created: the record moves to coding.
StartedCoding(s, clock) ==
    [s EXCEPT !.status = "coding",
              !.last_activity = utc_now(clock)]

\* ------------------------------------------------------------------ Init

\* Records an external scheduler may have left: every status, a counter below,
\* at and over the limit, a last_activity that is unparseable, stale or fresh.
InitAttempts == {0} \cup ((MAX_RECOVERY_ATTEMPTS - 1)..(MAX_RECOVERY_ATTEMPTS + 1))
InitTimestamps == {BadTimestamp, Timestamp("aware", 0, 0), Timestamp("naive", 0, 0),
                   Timestamp("aware", Threshold, Threshold),
                   Timestamp("aware", StartTime, 0)}
InitRecords(t) ==
    { TaskState(t, st, n, ts, IF st = "failed" THEN "Previous failure" ELSE NoReason) :
        st \in Statuses, n \in InitAttempts, ts \in InitTimestamps }

\* The worktree directory and its marker: no directory, a directory without
\* marker, a stale marker, a fresh marker.
InitWorktrees == {<<FALSE, NoMarker>>, <<TRUE, NoMarker>>, <<TRUE, 0>>, <<TRUE, StartTime>>}

InitProcs ==
    /\ lock = [t \in Tasks |-> {}]
    /\ temp = [t \in Tasks |-> FileAbsent]
    /\ now = StartTime
    /\ pc = [p \in Procs |-> "idle"]
    /\ op = [p \in Procs |-> "none"]
    /\ arg = [p \in Procs |-> "T1"]
    /\ acquired = [p \in Procs |-> FALSE]
    /\ state = [p \in Procs |-> None]
    /\ result = [p \in Procs |-> "none"]

Init ==
    /\ tasks = {"T1"}
    /\ \E f \in InitRecords("T1") \cup Unusable, w \in InitWorktrees :
         /\ file = [t \in Tasks |-> IF t = "T1" THEN f ELSE FileAbsent]
         /\ worktree = [t \in Tasks |-> IF t = "T1" THEN w[1] ELSE FALSE]
         /\ marker = [t \in Tasks |-> IF t = "T1" THEN w[2] ELSE NoMarker]
    /\ InitProcs

\* --------------------------------------------------------------- actions

\* task_lock, lock.acquire() succeeds: the call enters its critical section.
TaskLockAcquire(p, t, o) ==
    /\ pc[p] = "idle"
    /\ lock_granted(lock[t])
    /\ lock' = [lock EXCEPT ![t] = @ \cup {p}]
    /\ pc' = [pc EXCEPT ![p] = "locked"]
    /\ op' = [op EXCEPT ![p] = o]
    /\ arg' = [arg EXCEPT ![p] = t]
    /\ acquired' = [acquired EXCEPT ![p] = TRUE]
    /\ UNCHANGED <<temp, tasks, file, worktree, marker, now, state, result>>

\* task_lock, LockException after the timeout: yields False, and the caller
\* returns lock_failed (the same string in both functions).
TaskLockTimeout(p, t, o) ==
    /\ pc[p] = "idle"
    /\ ~lock_granted(lock[t])
    /\ pc' = [pc EXCEPT ![p] = "exit"]
    /\ op' = [op EXCEPT ![p] = o]
    /\ arg' = [arg EXCEPT ![p] = t]
    /\ acquired' = [acquired EXCEPT ![p] = FALSE]
    /\ result' = [result EXCEPT ![p] =
                    IF o = "recover_if_stuck" THEN RECOVERY_ACTION_LOCK_FAILED
                                              ELSE START_CODING_LOCK_FAILED]
    /\ UNCHANGED <<temp, tasks, file, worktree, marker, lock, now, state>>

\* recover_if_stuck under the lock: load_state.  Without a usable record the
\* call returns no_state.
RecoverLoad(p) ==
    /\ pc[p] = "locked" /\ op[p] = "recover_if_stuck"
    /\ LET s == load_state(file, arg[p])
       IN  /\ state' = [state EXCEPT ![p] = s]
           /\ IF s = None
              THEN /\ result' = [result EXCEPT ![p] = RECOVERY_ACTION_NO_STATE]
                   /\ pc' = [pc EXCEPT ![p] = "exit"]
              ELSE /\ pc' = [pc EXCEPT ![p] = "loaded"]
                   /\ UNCHANGED result
    /\ UNCHANGED <<temp, tasks, file, worktree, marker, lock, now, op, arg, acquired>>

\* recover_if_stuck under the lock, on the loaded record: decide, clean up,
\* save.
RecoverApply(p) ==
    /\ pc[p] = "loaded"
    /\ LET t == arg[p]
           s == state[p]
           action == RecoveryAction(s, worktree_exists(worktree, t),
                                    is_zombie(s, now, marker[s.task_id]))
           new == RecoveredState(s, action, now)
       IN  /\ result' = [result EXCEPT ![p] = action]
           /\ state' = [state EXCEPT ![p] = new]
           /\ file' = IF action = RECOVERY_ACTION_NONE THEN file
                      ELSE save_state(file, new)
           /\ IF action = RECOVERY_ACTION_ZOMBIE_CLEANUP
              THEN \E ok \in BOOLEAN :
                     /\ worktree' = remove_worktree(worktree, marker, t, ok)[1]
                     /\ marker' = remove_worktree(worktree, marker, t, ok)[2]
              ELSE UNCHANGED <<worktree, marker>>
    /\ pc' = [pc EXCEPT ![p] = "exit"]
    /\ UNCHANGED <<temp, tasks, lock, now, op, arg, acquired>>

\* start_coding under the lock, up to and including _create_worktree.
StartCodingCreate(p) ==
    /\ pc[p] = "locked" /\ op[p] = "start_coding"
    /\ LET t == arg[p]
           s == load_state(file, t)
       IN  IF StartCodingCheck(s) # "proceed"
           THEN /\ result' = [result EXCEPT ![p] = StartCodingCheck(s)]
                /\ state' = [state EXCEPT ![p] = s]
                /\ pc' = [pc EXCEPT ![p] = "exit"]
                /\ UNCHANGED <<file, worktree, marker>>
           ELSE \E branch_ok, rm_ok, add_ok \in BOOLEAN :
                  LET made == create_worktree(worktree, marker, t, branch_ok, rm_ok, add_ok)
                  IN  /\ worktree' = made[2]
                      /\ marker' = made[3]
                      /\ IF made[1]
                         THEN /\ state' = [state EXCEPT ![p] = s]
                              /\ pc' = [pc EXCEPT ![p] = "created"]
                              /\ UNCHANGED <<file, result>>
                         ELSE /\ state' = [state EXCEPT ![p] = CreationFailed(s, now)]
                              /\ file' = save_state(file, CreationFailed(s, now))
                              /\ result' = [result EXCEPT ![p] = START_CODING_WORKTREE_FAILED]
                              /\ pc' = [pc EXCEPT ![p] = "exit"]
    /\ UNCHANGED <<temp, tasks, lock, now, op, arg, acquired>>

\* start_coding after the worktree was created: marker, status, save.
StartCodingCommit(p) ==
    /\ pc[p] = "created"
    /\ LET t == arg[p]
           new == StartedCoding(state[p], now)
       IN  /\ worktree' = touched_worktree(worktree, t)
           /\ marker' = touched_marker(marker, t, now)
           /\ state' = [state EXCEPT ![p] = new]
           /\ file' = save_state(file, new)
    /\ result' = [result EXCEPT ![p] = START_CODING_SUCCESS]
    /\ pc' = [pc EXCEPT ![p] = "exit"]
    /\ UNCHANGED <<temp, tasks, lock, now, op, arg, acquired>>

\* The finally clause of task_lock and the return to the caller.
Return(p) ==
    /\ pc[p] = "exit"
    /\ lock' = [lock EXCEPT ![arg[p]] = lock_released(@, p)]
    /\ pc' = [pc EXCEPT ![p] = "idle"]
    /\ op' = [op EXCEPT ![p] = "none"]
    /\ acquired' = [acquired EXCEPT ![p] = FALSE]
    /\ state' = [state EXCEPT ![p] = None]
    /\ result' = [result EXCEPT ![p] = "none"]
    /\ UNCHANGED <<temp, tasks, file, worktree, marker, now, arg>>

\* touch_activity, called by a worker without the lock.
TouchActivity(t) ==
    /\ worktree' = touched_worktree(worktree, t)
    /\ marker' = touched_marker(marker, t, now)
    /\ UNCHANGED <<temp, tasks, file, lock, now, pc, op, arg, acquired, state, result>>

\* Time passes.
Tick ==
    /\ now + TickMinutes <= EndTime
    /\ now' = now + TickMinutes
    /\ UNCHANGED <<temp, tasks, file, worktree, marker, lock, pc, op, arg, acquired, state, result>>

Ops == {"recover_if_stuck", "start_coding"}

Next ==
    \/ \E p \in Procs, t \in tasks, o \in Ops : TaskLockAcquire(p, t, o)
    \/ \E p \in Procs, t \in tasks, o \in Ops : TaskLockTimeout(p, t, o)
    \/ \E p \in Procs : RecoverLoad(p)
    \/ \E p \in Procs : RecoverApply(p)
    \/ \E p \in Procs : StartCodingCreate(p)
    \/ \E p \in Procs : StartCodingCommit(p)
    \/ \E p \in Procs : Return(p)
    \/ \E t \in tasks : TouchActivity(t)
    \/ Tick

Spec == Init /\ [][Next]_vars

\* ------------------------------------------- concurrent recoveries of a task

\* A task left in coding without a worktree, below the last countable attempt.
Init20Records(t) ==
    { TaskState(t, "coding", n, ts, NoReason) :
        n \in 0..(MAX_RECOVERY_ATTEMPTS - 2), ts \in InitTimestamps }

Init20 ==
    /\ tasks = {"T1"}
    /\ file \in [Tasks -> Init20Records("T1") \cup {FileAbsent}]
    /\ file["T1"] \in Init20Records("T1") /\ file["T2"] = FileAbsent
    /\ worktree = [t \in Tasks |-> FALSE]
    /\ marker = [t \in Tasks |-> NoMarker]
    /\ InitProcs

\* The finally clause of task_lock and the return to a caller that keeps the
\* returned action and does not call again.
ReturnKeep(p) ==
    /\ pc[p] = "exit"
    /\ lock' = [lock EXCEPT ![arg[p]] = lock_released(@, p)]
    /\ pc' = [pc EXCEPT ![p] = "returned"]
    /\ acquired' = [acquired EXCEPT ![p] = FALSE]
    /\ state' = [state EXCEPT ![p] = None]
    /\ UNCHANGED <<temp, tasks, file, worktree, marker, now, op, arg, result>>

\* Every process calls recover_if_stuck on the task once.
Next20 ==
    \/ \E p \in Procs, t \in tasks : TaskLockAcquire(p, t, "recover_if_stuck")
    \/ \E p \in Procs, t \in tasks : TaskLockTimeout(p, t, "recover_if_stuck")
    \/ \E p \in Procs : RecoverLoad(p)
    \/ \E p \in Procs : RecoverApply(p)
    \/ \E p \in Procs : ReturnKeep(p)
    \/ Tick

Spec20 == Init20 /\ [][Next20]_vars

\* ------------------------------------------- the state store, file by file

\* JSON's null, which json.dumps writes for None.
JsonNull == "null"

\* A parse that takes an empty failure_reason for a missing one.
from_json_emptyIsNone(content) ==
    IF content \in Unusable THEN None
    ELSE LET d == content.data
         IN  TaskState(d.task_id, d.status, d.recovery_attempts, d.last_activity,
                       IF d.failure_reason \in {JsonNull, ""} THEN NoReason
                                                               ELSE d.failure_reason)

\* load_state on the content of the canonical file: json.loads and the
\* TaskState constructor; None where the file is absent or does not parse.
from_json(content) ==
    IF content \in Unusable THEN None
    ELSE LET d == content.data
         IN  TaskState(d.task_id, d.status, d.recovery_attempts, d.last_activity,
                       IF d.failure_reason = JsonNull THEN NoReason
                                                      ELSE d.failure_reason)

\* json.dumps(asdict(state)): the complete document save_state writes.
to_json(s) ==
    [text |-> "json",
     data |-> [task_id |-> s.task_id,
               status |-> s.status,
               recovery_attempts |-> s.recovery_attempts,
               last_activity |-> s.last_activity,
               failure_reason |-> IF s.failure_reason = NoReason THEN JsonNull
                                                                 ELSE s.failure_reason]]

\* A write that goes to the canonical file itself.
write_text_inplace(f, tmp, task_id) ==
    <<[f EXCEPT ![task_id] = FileCorruptJson], tmp>>

\* temp_path.write_text under way: the temporary file holds the beginning of
\* the document, which does not parse.  Yields <<canonical files, temp files>>.
write_text_partial(f, tmp, task_id) ==
    <<f, [tmp EXCEPT ![task_id] = FileCorruptJson]>>

\* A replace that leaves the canonical file empty when it fails half way.
os_replace_torn(f, tmp, task_id, ok) ==
    IF ok THEN <<[f EXCEPT ![task_id] = tmp[task_id]], [tmp EXCEPT ![task_id] = FileAbsent]>>
          ELSE <<[f EXCEPT ![task_id] = FileCorruptJson], tmp>>

\* os.replace(temp_path, state_path): one atomic rename, or no change at all
\* when it fails.  Yields <<canonical files, temp files>>.
os_replace(f, tmp, task_id, ok) ==
    IF ok THEN <<[f EXCEPT ![task_id] = tmp[task_id]], [tmp EXCEPT ![task_id] = FileAbsent]>>
          ELSE <<f, tmp>>

\* The except clause that leaves the temporary file behind.
temp_unlinked_never(tmp, task_id) == tmp

\* The except clause of save_state: the temporary file is unlinked if it exists.
temp_unlinked(tmp, task_id) == [tmp EXCEPT ![task_id] = FileAbsent]

\* The records the callers of the store save.
StoreRecords ==
    { TaskState("T1", st, 0, Timestamp("aware", StartTime, 0), NoReason) : st \in Statuses }
    \cup { TaskState("T1", "failed", MAX_RECOVERY_ATTEMPTS, BadTimestamp, fr) :
             fr \in {MaxRetriesReason, ""} }

InitStore ==
    /\ tasks = {"T1"}
    /\ file \in [Tasks -> {FileAbsent} \cup {to_json(s) : s \in StoreRecords}]
    /\ file["T2"] = FileAbsent
    /\ worktree = [t \in Tasks |-> FALSE]
    /\ marker = [t \in Tasks |-> NoMarker]
    /\ InitProcs

\* A caller holding the Task Lock enters save_state(s).
SaveStateCall(p, s) ==
    /\ pc[p] = "idle" /\ s.task_id \in tasks
    /\ lock_granted(lock[s.task_id])
    /\ lock' = [lock EXCEPT ![s.task_id] = @ \cup {p}]
    /\ pc' = [pc EXCEPT ![p] = "saving"]
    /\ op' = [op EXCEPT ![p] = "save_state"]
    /\ arg' = [arg EXCEPT ![p] = s.task_id]
    /\ acquired' = [acquired EXCEPT ![p] = TRUE]
    /\ state' = [state EXCEPT ![p] = s]
    /\ UNCHANGED <<tasks, file, temp, worktree, marker, now, result>>

\* save_state: write_text has opened the temporary file and written a part.
SaveWriteBegin(p) ==
    /\ pc[p] = "saving"
    /\ file' = write_text_partial(file, temp, arg[p])[1]
    /\ temp' = write_text_partial(file, temp, arg[p])[2]
    /\ pc' = [pc EXCEPT ![p] = "writing"]
    /\ UNCHANGED <<tasks, worktree, marker, lock, now, op, arg, acquired, state, result>>

\* save_state: write_text has written the whole document.
SaveWriteEnd(p) ==
    /\ pc[p] = "writing"
    /\ temp' = [temp EXCEPT ![arg[p]] = to_json(state[p])]
    /\ pc' = [pc EXCEPT ![p] = "written"]
    /\ UNCHANGED <<tasks, file, worktree, marker, lock, now, op, arg, acquired, state, result>>

\* save_state: os.replace succeeds and the call returns.
SaveReplace(p) ==
    /\ pc[p] = "written"
    /\ file' = os_replace(file, temp, arg[p], TRUE)[1]
    /\ temp' = os_replace(file, temp, arg[p], TRUE)[2]
    /\ result' = [result EXCEPT ![p] = None]
    /\ pc' = [pc EXCEPT ![p] = "exit"]
    /\ UNCHANGED <<tasks, worktree, marker, lock, now, op, arg, acquired, state>>

\* save_state: write_text or os.replace raises; the except clause unlinks the
\* temporary file and re-raises.
SaveRaises(p) ==
    /\ pc[p] \in {"saving", "writing", "written"}
    /\ file' = IF pc[p] = "written" THEN os_replace(file, temp, arg[p], FALSE)[1] ELSE file
    /\ temp' = temp_unlinked(temp, arg[p])
    /\ pc' = [pc EXCEPT ![p] = "raised"]
    /\ UNCHANGED <<tasks, worktree, marker, lock, now, op, arg, acquired, state, result>>

\* An exception leaves the call: the finally clause of task_lock releases the
\* lock and the caller gets the exception, no value.
Propagate(p) ==
    /\ pc[p] = "raised"
    /\ lock' = [lock EXCEPT ![arg[p]] = lock_released(@, p)]
    /\ pc' = [pc EXCEPT ![p] = "idle"]
    /\ op' = [op EXCEPT ![p] = "none"]
    /\ acquired' = [acquired EXCEPT ![p] = FALSE]
    /\ state' = [state EXCEPT ![p] = None]
    /\ UNCHANGED <<tasks, file, temp, worktree, marker, now, arg, result>>

\* The process dies inside save_state: its files stay as they are and the
\* operating system drops its lock.
SaveCrash(p) ==
    /\ pc[p] \in {"saving", "writing", "written"}
    /\ lock' = [lock EXCEPT ![arg[p]] = lock_released(@, p)]
    /\ pc' = [pc EXCEPT ![p] = "crashed"]
    /\ acquired' = [acquired EXCEPT ![p] = FALSE]
    /\ UNCHANGED <<tasks, file, temp, worktree, marker, now, op, arg, state, result>>

\* load_state(t), called without the lock.
LoadStateCall(p, t) ==
    /\ pc[p] = "idle"
    /\ pc' = [pc EXCEPT ![p] = "exit"]
    /\ op' = [op EXCEPT ![p] = "load_state"]
    /\ arg' = [arg EXCEPT ![p] = t]
    /\ result' = [result EXCEPT ![p] = from_json(file[t])]
    /\ UNCHANGED <<tasks, file, temp, worktree, marker, lock, now, acquired, state>>

NextStore ==
    \/ \E p \in Procs, s \in StoreRecords : SaveStateCall(p, s)
    \/ \E p \in Procs : SaveWriteBegin(p)
    \/ \E p \in Procs : SaveWriteEnd(p)
    \/ \E p \in Procs : SaveReplace(p)
    \/ \E p \in Procs : SaveRaises(p)
    \/ \E p \in Procs : Propagate(p)
    \/ \E p \in Procs : SaveCrash(p)
    \/ \E p \in Procs, t \in tasks : LoadStateCall(p, t)
    \/ \E p \in Procs : Return(p)

SpecStore == InitStore /\ [][NextStore]_vars

\* ---------------------------------------- the operations when the disk fails

\* The temporary files after a save_state that raised: write_text got as far
\* as a part of the document (or os.replace failed after the whole), and the
\* except clause unlinked the file.
temp_after_failed_save(f, tmp, task_id) ==
    temp_unlinked(write_text_partial(f, tmp, task_id)[2], task_id)

\* lock.release() raised inside the finally clause and the error was passed
\* over; the lock file's handle is closed when the Lock object is discarded
\* at the end of task_lock, which drops the flock.
handle_closed(holders, p) == holders \ {p}

InitFaultsRecords(t) ==
    { TaskState(t, st, n, ts, NoReason) :
        st \in {"planning", "ready", "coding"},
        n \in {0, MAX_RECOVERY_ATTEMPTS - 1, MAX_RECOVERY_ATTEMPTS},
        ts \in {BadTimestamp, Timestamp("aware", StartTime, 0)} }

InitFaults ==
    /\ tasks = {"T1"}
    /\ file \in [Tasks -> InitFaultsRecords("T1") \cup {FileAbsent}]
    /\ file["T2"] = FileAbsent
    /\ \E w \in InitWorktrees :
         /\ worktree = [t \in Tasks |-> t = "T1" /\ w[1]]
         /\ marker = [t \in Tasks |-> IF t = "T1" THEN w[2] ELSE NoMarker]
    /\ InitProcs

\* recover_if_stuck under the lock, on the loaded record, when the save_state
\* of the corrective case raises: the cleanup has run, the record on disk is
\* the old one, and the exception leaves the function.
RecoverApplyRaises(p) ==
    /\ pc[p] = "loaded"
    /\ LET t == arg[p]
           s == state[p]
           action == RecoveryAction(s, worktree_exists(worktree, t),
                                    is_zombie(s, now, marker[s.task_id]))
       IN  /\ action # RECOVERY_ACTION_NONE
           /\ state' = [state EXCEPT ![p] = RecoveredState(s, action, now)]
           /\ file' = os_replace(file, temp, t, FALSE)[1]
           /\ temp' = temp_after_failed_save(file, temp, t)
           /\ IF action = RECOVERY_ACTION_ZOMBIE_CLEANUP
              THEN \E ok \in BOOLEAN :
                     /\ worktree' = remove_worktree(worktree, marker, t, ok)[1]
                     /\ marker' = remove_worktree(worktree, marker, t, ok)[2]
              ELSE UNCHANGED <<worktree, marker>>
    /\ pc' = [pc EXCEPT ![p] = "raised"]
    /\ UNCHANGED <<tasks, lock, now, op, arg, acquired, result>>

\* start_coding under the lock: _create_worktree fails and the save_state of
\* the counted attempt raises.
StartCodingCreateRaises(p) ==
    /\ pc[p] = "locked" /\ op[p] = "start_coding"
    /\ LET t == arg[p]
           s == load_state(file, t)
       IN  /\ StartCodingCheck(s) = "proceed"
           /\ \E branch_ok, rm_ok, add_ok \in BOOLEAN :
                LET made == create_worktree(worktree, marker, t, branch_ok, rm_ok, add_ok)
                IN  /\ ~made[1]
                    /\ worktree' = made[2]
                    /\ marker' = made[3]
           /\ state' = [state EXCEPT ![p] = CreationFailed(s, now)]
           /\ file' = os_replace(file, temp, t, FALSE)[1]
           /\ temp' = temp_after_failed_save(file, temp, t)
    /\ pc' = [pc EXCEPT ![p] = "raised"]
    /\ UNCHANGED <<tasks, lock, now, op, arg, acquired, result>>

\* start_coding after the worktree was created: the marker is touched and
\* the save_state of the coding record raises.
StartCodingCommitRaises(p) ==
    /\ pc[p] = "created"
    /\ LET t == arg[p]
       IN  /\ worktree' = touched_worktree(worktree, t)
           /\ marker' = touched_marker(marker, t, now)
           /\ state' = [state EXCEPT ![p] = StartedCoding(state[p], now)]
           /\ file' = os_replace(file, temp, t, FALSE)[1]
           /\ temp' = temp_after_failed_save(file, temp, t)
    /\ pc' = [pc EXCEPT ![p] = "raised"]
    /\ UNCHANGED <<tasks, lock, now, op, arg, acquired, result>>

\* start_coding after the worktree was created, when touch_activity meets an
\* OSError and returns False: the return value is not looked at, the record
\* is saved as coding and success is returned.
StartCodingCommitUntouched(p) ==
    /\ pc[p] = "created"
    /\ LET new == StartedCoding(state[p], now)
       IN  /\ state' = [state EXCEPT ![p] = new]
           /\ file' = save_state(file, new)
    /\ result' = [result EXCEPT ![p] = START_CODING_SUCCESS]
    /\ pc' = [pc EXCEPT ![p] = "exit"]
    /\ UNCHANGED <<temp, tasks, worktree, marker, lock, now, op, arg, acquired>>

\* The finally clause of task_lock when lock.release() raises: the error is
\* passed over and the call returns its value all the same.
ReturnUnlockError(p) ==
    /\ pc[p] = "exit"
    /\ lock' = [lock EXCEPT ![arg[p]] = handle_closed(@, p)]
    /\ pc' = [pc EXCEPT ![p] = "idle"]
    /\ op' = [op EXCEPT ![p] = "none"]
    /\ acquired' = [acquired EXCEPT ![p] = FALSE]
    /\ state' = [state EXCEPT ![p] = None]
    /\ result' = [result EXCEPT ![p] = "none"]
    /\ UNCHANGED <<temp, tasks, file, worktree, marker, now, arg>>

NextFaults ==
    \/ \E p \in Procs, t \in tasks, o \in Ops : TaskLockAcquire(p, t, o)
    \/ \E p \in Procs, t \in tasks, o \in Ops : TaskLockTimeout(p, t, o)
    \/ \E p \in Procs : RecoverLoad(p)
    \/ \E p \in Procs : RecoverApply(p)
    \/ \E p \in Procs : RecoverApplyRaises(p)
    \/ \E p \in Procs : StartCodingCreate(p)
    \/ \E p \in Procs : StartCodingCreateRaises(p)
    \/ \E p \in Procs : StartCodingCommit(p)
    \/ \E p \in Procs : StartCodingCommitRaises(p)
    \/ \E p \in Procs : StartCodingCommitUntouched(p)
    \/ \E p \in Procs : Return(p)
    \/ \E p \in Procs : ReturnUnlockError(p)
    \/ \E p \in Procs : Propagate(p)
    \/ \E t \in tasks : TouchActivity(t)
    \/ Tick

SpecFaults == InitFaults /\ [][NextFaults]_vars

\* ------------------------------------------------- is_zombie, on its own

\* last_activity strings around the threshold, seen from StartTime: 2h01m,
\* 2h00m and 1h59m old, current, and a minute ahead; naive, UTC, and with an
\* offset of one hour; and one that does not parse.
ZombieTimestamps ==
    {BadTimestamp}
    \cup { Timestamp(k, w, 0) :
             k \in {"naive", "aware"},
             w \in {0 - 1, 0, 1, StartTime, StartTime + 1} }
    \cup { Timestamp("aware", w + 60, 60) : w \in {0 - 1, 0, 1} }

\* Markers: none, unreadable, 2h00m and 1h59m old, current.
ZombieMarkers == {NoMarker, MarkerUnreadable, 0, 1, StartTime}

InitZombie ==
    /\ tasks = {"T1"}
    /\ file \in [Tasks -> { TaskState("T1", "coding", 0, ts, NoReason) :
                              ts \in ZombieTimestamps } \cup {FileAbsent}]
    /\ file["T1"] # FileAbsent /\ file["T2"] = FileAbsent
    /\ worktree = [t \in Tasks |-> t = "T1"]
    /\ marker \in [Tasks -> ZombieMarkers]
    /\ marker["T2"] = NoMarker
    /\ InitProcs

\* is_zombie(state, base_dir) called on the record of task t.
IsZombieCall(p, t) ==
    /\ pc[p] = "idle"
    /\ pc' = [pc EXCEPT ![p] = "exit"]
    /\ op' = [op EXCEPT ![p] = "is_zombie"]
    /\ arg' = [arg EXCEPT ![p] = t]
    /\ state' = [state EXCEPT ![p] = load_state(file, t)]
    /\ result' = [result EXCEPT ![p] = is_zombie(load_state(file, t), now, marker[t])]
    /\ UNCHANGED <<temp, tasks, file, worktree, marker, lock, now, acquired>>

NextZombie ==
    \/ \E p \in Procs, t \in tasks : IsZombieCall(p, t)
    \/ \E p \in Procs : Return(p)
    \/ Tick

SpecZombie == InitZombie /\ [][NextZombie]_vars

\* ------------------------------------------------ the operations when git fails

\* What a subprocess.run of git can come to: exit code 0, another exit code,
\* TimeoutExpired, FileNotFoundError for a missing executable.
GitOutcomes == {"exit0", "nonzero", "timeout", "missing"}

\* subprocess.run raised instead of returning a CompletedProcess.
GitRaised(o) == o \in {"timeout", "missing"}

\* _create_worktree up to its try statement: the base branch is the one given,
\* or main, or master, or the current branch; "none" is the return False when
\* even HEAD cannot be resolved; "raise" is an exception of one of the
\* rev-parse calls, which no except clause encloses.
base_branch_probe(given, main, master, head) ==
    IF given THEN "found"
    ELSE IF GitRaised(main) THEN "raise"
    ELSE IF main = "exit0" THEN "found"
    ELSE IF GitRaised(master) THEN "raise"
    ELSE IF master = "exit0" THEN "found"
    ELSE IF GitRaised(head) THEN "raise"
    ELSE IF head = "exit0" THEN "found"
    ELSE "none"

\* start_coding under the lock, called without a base_branch, when a
\* rev-parse call of _create_worktree raises: the exception leaves
\* _create_worktree and start_coding.
StartCodingProbeRaises(p) ==
    /\ pc[p] = "locked" /\ op[p] = "start_coding"
    /\ StartCodingCheck(load_state(file, arg[p])) = "proceed"
    /\ \E main, master, head \in GitOutcomes :
         base_branch_probe(FALSE, main, master, head) = "raise"
    /\ state' = [state EXCEPT ![p] = load_state(file, arg[p])]
    /\ pc' = [pc EXCEPT ![p] = "raised"]
    /\ UNCHANGED <<temp, tasks, file, worktree, marker, lock, now, op, arg, acquired, result>>

NextGit ==
    \/ \E p \in Procs, t \in tasks, o \in Ops : TaskLockAcquire(p, t, o)
    \/ \E p \in Procs, t \in tasks, o \in Ops : TaskLockTimeout(p, t, o)
    \/ \E p \in Procs : RecoverLoad(p)
    \/ \E p \in Procs : RecoverApply(p)
    \/ \E p \in Procs : StartCodingCreate(p)
    \/ \E p \in Procs : StartCodingProbeRaises(p)
    \/ \E p \in Procs : StartCodingCommit(p)
    \/ \E p \in Procs : Return(p)
    \/ \E p \in Procs : Propagate(p)
    \/ Tick

SpecGit == InitFaults /\ [][NextGit]_vars

\* ------------------------------------------------------ two tasks side by side

\* Each of the two tasks is stuck or ready, without a worktree.
Init28Records(t) ==
    { TaskState(t, st, 0, BadTimestamp, NoReason) : st \in {"coding", "ready"} }

Init28 ==
    /\ tasks = Tasks
    /\ file \in [Tasks -> UNION {Init28Records(t) : t \in Tasks}]
    /\ \A t \in Tasks : file[t] \in Init28Records(t)
    /\ worktree = [t \in Tasks |-> FALSE]
    /\ marker = [t \in Tasks |-> NoMarker]
    /\ InitProcs

\* The pollers and starters of both tasks.
Next28 ==
    \/ \E p \in Procs, t \in tasks, o \in Ops : TaskLockAcquire(p, t, o)
    \/ \E p \in Procs, t \in tasks, o \in Ops : TaskLockTimeout(p, t, o)
    \/ \E p \in Procs : RecoverLoad(p)
    \/ \E p \in Procs : RecoverApply(p)
    \/ \E p \in Procs : StartCodingCreate(p)
    \/ \E p \in Procs : StartCodingCommit(p)
    \/ \E p \in Procs : Return(p)

Spec28 == Init28 /\ [][Next28]_vars

\* ------------------------------------------------------------ properties

\* Process p is between a successful lock acquisition and the release.
InCritical(p) == pc[p] \in {"locked", "loaded", "created"} \/ (pc[p] = "exit" /\ acquired[p])

\* The record of task t is a usable one.
HasRecord(t) == file[t] \notin Unusable

\* Process p ends a call of function o in this step: the step fixes its result.
Completes(p, o) == pc[p] # "exit" /\ pc'[p] = "exit" /\ op'[p] = o

\* Process p runs the locked body of recover_if_stuck in this step, on the
\* usable record it has loaded.
Recovers(p) ==
    /\ pc[p] = "loaded" /\ op[p] = "recover_if_stuck" /\ pc'[p] = "exit"
    /\ HasRecord(arg[p])

\* C1: no two recover_if_stuck / start_coding calls for the same task are in
\* their critical section (between a successful lock acquisition and the
\* release) at the same time.
C1_MutualExclusion ==
    \A p, q \in Procs :
        (p # q /\ InCritical(p) /\ InCritical(q)) => arg[p] # arg[q]

\* C1 witness: one call is in its critical section while another call for the
\* same task has timed out on the lock.
C1_Witness ==
    \E p, q \in Procs :
        /\ p # q /\ arg[p] = arg[q]
        /\ InCritical(p) /\ pc[p] = "created"
        /\ pc[q] = "exit" /\ ~acquired[q] /\ result[q] = RECOVERY_ACTION_LOCK_FAILED

\* C2 as stated: once recovery_attempts has reached 5, every recover_if_stuck
\* call made from then on returns mark_failed or no_action.
C2_Original ==
    [][\A p \in Procs :
          (/\ Completes(p, "recover_if_stuck")
           /\ HasRecord(arg'[p])
           /\ file[arg'[p]].recovery_attempts >= MAX_RECOVERY_ATTEMPTS)
          => result'[p] \in {RECOVERY_ACTION_MARK_FAILED, RECOVERY_ACTION_NONE}]_vars

\* C2 amended: once recovery_attempts has reached 5 it stays there; every
\* recover_if_stuck call made from then on that acquires the lock returns
\* mark_failed while status is not yet failed (leaving it failed) and no_action
\* once it is; a call that cannot acquire the lock returns lock_failed and
\* changes nothing; no start_coding call changes the record; and a failed
\* record is never changed again.
C2_BoundedRetries ==
    [][\A t \in Tasks :
          (HasRecord(t) /\ file[t].recovery_attempts >= MAX_RECOVERY_ATTEMPTS)
          => /\ HasRecord(t)'
             /\ file'[t].recovery_attempts = file[t].recovery_attempts
             /\ file[t].status = "failed" => file'[t] = file[t]
             /\ \A p \in Procs :
                  /\ (Completes(p, "recover_if_stuck") /\ arg'[p] = t) =>
                       IF acquired'[p]
                       THEN /\ result'[p] = IF file[t].status = "failed"
                                            THEN RECOVERY_ACTION_NONE
                                            ELSE RECOVERY_ACTION_MARK_FAILED
                            /\ file'[t].status = "failed"
                       ELSE /\ result'[p] = RECOVERY_ACTION_LOCK_FAILED
                            /\ file'[t] = file[t]
                  /\ (Completes(p, "start_coding") /\ arg'[p] = t) =>
                       /\ result'[p] \in {START_CODING_MAX_RETRIES, START_CODING_LOCK_FAILED}
                       /\ file'[t] = file[t]]_vars

\* C2 witness: after time has passed, a call has found the counter at the
\* limit and has marked the task failed.
C2_Witness ==
    \E p \in Procs :
        /\ pc[p] = "exit" /\ result[p] = RECOVERY_ACTION_MARK_FAILED
        /\ file[arg[p]].status = "failed"
        /\ file[arg[p]].recovery_attempts = MAX_RECOVERY_ATTEMPTS
        /\ file[arg[p]].last_activity.wall > StartTime

\* C3: a record whose status is done or failed is never mutated by
\* recover_if_stuck: the call returns no_action and leaves the record as it is.
C3_TerminalUntouched ==
    [][\A p \in Procs :
          (Recovers(p) /\ file[arg[p]].status \in {"done", "failed"})
          => /\ result'[p] = RECOVERY_ACTION_NONE
             /\ file' = file]_vars

\* The record a recovery of process p is expected to persist: the loaded one
\* with the given status and counter, last_activity set to the current UTC
\* time, and nothing else changed.
Expected(p, status, attempts) ==
    [file EXCEPT ![arg[p]] =
        [file[arg[p]] EXCEPT !.status = status,
                             !.recovery_attempts = attempts,
                             !.last_activity = Timestamp("aware", now, 0)]]

\* Process p, in this step, loads a record below the retry limit with the
\* given status.
RecoversFrom(p, status) ==
    /\ Recovers(p)
    /\ file[arg[p]].status = status
    /\ file[arg[p]].recovery_attempts < MAX_RECOVERY_ATTEMPTS

\* C4: when recover_if_stuck loads a record with recovery_attempts >= 5 whose
\* status is not failed, it persists status failed, the failure_reason naming
\* the limit and a fresh last_activity, and returns mark_failed, before any of
\* the cases: the counter is not incremented and no worktree is removed.  When
\* the status is already failed it returns no_action and writes nothing.
C4_MarkFailed ==
    [][\A p \in Procs :
          (Recovers(p) /\ file[arg[p]].recovery_attempts >= MAX_RECOVERY_ATTEMPTS)
          => /\ worktree' = worktree /\ marker' = marker
             /\ IF file[arg[p]].status # "failed"
                THEN /\ result'[p] = RECOVERY_ACTION_MARK_FAILED
                     /\ file' = [file EXCEPT ![arg[p]] =
                           [file[arg[p]] EXCEPT
                              !.status = "failed",
                              !.failure_reason = "Maximum recovery attempts (5) exceeded",
                              !.last_activity = Timestamp("aware", now, 0)]]
                ELSE /\ result'[p] = RECOVERY_ACTION_NONE
                     /\ file' = file]_vars

\* C4 witness: a call has returned mark_failed for a task over the limit whose
\* worktree is still there.
C4_Witness ==
    \E p \in Procs :
        /\ pc[p] = "exit" /\ result[p] = RECOVERY_ACTION_MARK_FAILED
        /\ worktree[arg[p]]
        /\ file[arg[p]].recovery_attempts > MAX_RECOVERY_ATTEMPTS
        /\ file[arg[p]].failure_reason = MaxRetriesReason

\* C5: in every reachable state, status = failed implies that failure_reason
\* is not null.
C5_FailedHasReason ==
    \A t \in Tasks :
        (HasRecord(t) /\ file[t].status = "failed") => file[t].failure_reason # NoReason

\* C5 witness: a record that recover_if_stuck itself marked failed.
C5_Witness ==
    /\ HasRecord("T1") /\ file["T1"].status = "failed"
    /\ file["T1"].failure_reason = MaxRetriesReason
    /\ \A p \in Procs : pc[p] = "idle"

\* C6: recovery_attempts never decreases: after every step of
\* recover_if_stuck, start_coding and touch_activity the persisted counter is
\* greater than or equal to its value before the step.
C6_AttemptsMonotone ==
    [][\A t \in Tasks :
          HasRecord(t) => /\ HasRecord(t)'
                          /\ file'[t].recovery_attempts >= file[t].recovery_attempts]_vars

\* C6 witness: the counter has been raised twice from 0.
C6_Witness ==
    /\ HasRecord("T1") /\ file["T1"].recovery_attempts = 2

\* C7 (Case A): when recover_if_stuck loads a record with status coding and
\* recovery_attempts < 5 and no worktree directory exists, it persists status
\* ready, the counter incremented by exactly 1 and a fresh last_activity, and
\* returns reset_to_ready.
C7_CaseA ==
    [][\A p \in Procs :
          (RecoversFrom(p, "coding") /\ ~worktree[arg[p]])
          => /\ result'[p] = RECOVERY_ACTION_RESET_TO_READY
             /\ file' = Expected(p, "ready", file[arg[p]].recovery_attempts + 1)]_vars

\* C7 witness: a call has returned reset_to_ready and the record is ready with
\* one attempt counted.
C7_Witness ==
    \E p \in Procs :
        /\ pc[p] = "exit" /\ result[p] = RECOVERY_ACTION_RESET_TO_READY
        /\ file[arg[p]].status = "ready" /\ file[arg[p]].recovery_attempts = 1
        /\ ~worktree[arg[p]]

\* C8 (Case B): when recover_if_stuck loads a record with status coding and
\* recovery_attempts < 5, the worktree is present and is_zombie is true, it
\* attempts to remove the worktree and, whether or not the removal succeeded,
\* persists status ready, the counter incremented by exactly 1 and a fresh
\* last_activity, and returns zombie_cleanup.
C8_CaseB ==
    [][\A p \in Procs :
          (/\ RecoversFrom(p, "coding") /\ worktree[arg[p]]
           /\ is_zombie(file[arg[p]], now, marker[arg[p]]))
          => /\ result'[p] = RECOVERY_ACTION_ZOMBIE_CLEANUP
             /\ file' = Expected(p, "ready", file[arg[p]].recovery_attempts + 1)
             /\ \/ worktree' = worktree /\ marker' = marker
                \/ /\ worktree' = [worktree EXCEPT ![arg[p]] = FALSE]
                   /\ marker' = [marker EXCEPT ![arg[p]] = NoMarker]]_vars

\* C8 witness: a call has returned zombie_cleanup although the removal of the
\* worktree failed.
C8_Witness ==
    \E p \in Procs :
        /\ pc[p] = "exit" /\ result[p] = RECOVERY_ACTION_ZOMBIE_CLEANUP
        /\ file[arg[p]].status = "ready"
        /\ worktree[arg[p]]

\* C9 (Case C): when recover_if_stuck loads a record with status ready and
\* recovery_attempts < 5 and the worktree is present, it persists status
\* coding and a fresh last_activity, leaves recovery_attempts unchanged, and
\* returns update_to_coding.
C9_CaseC ==
    [][\A p \in Procs :
          (RecoversFrom(p, "ready") /\ worktree[arg[p]])
          => /\ result'[p] = RECOVERY_ACTION_UPDATE_TO_CODING
             /\ file' = Expected(p, "coding", file[arg[p]].recovery_attempts)
             /\ worktree' = worktree /\ marker' = marker]_vars

\* C9 witness: a call has returned update_to_coding and the record is coding
\* with no attempt counted.
C9_Witness ==
    \E p \in Procs :
        /\ pc[p] = "exit" /\ result[p] = RECOVERY_ACTION_UPDATE_TO_CODING
        /\ file[arg[p]].status = "coding" /\ file[arg[p]].recovery_attempts = 0
        /\ worktree[arg[p]]

\* C10 (Case D): when recover_if_stuck loads a record with status planning
\* and recovery_attempts < 5 and is_zombie is true, it persists status
\* backlog, the counter incremented by exactly 1 and a fresh last_activity, and
\* returns reset_to_backlog; a planning record that is not stale is left
\* unchanged with no_action.
C10_CaseD ==
    [][\A p \in Procs :
          RecoversFrom(p, "planning")
          => /\ worktree' = worktree /\ marker' = marker
             /\ IF is_zombie(file[arg[p]], now, marker[arg[p]])
                THEN /\ result'[p] = RECOVERY_ACTION_RESET_TO_BACKLOG
                     /\ file' = Expected(p, "backlog", file[arg[p]].recovery_attempts + 1)
                ELSE /\ result'[p] = RECOVERY_ACTION_NONE
                     /\ file' = file]_vars

\* C10 witness: a call has returned reset_to_backlog and the record is in
\* backlog with one attempt counted.
C10_Witness ==
    \E p \in Procs :
        /\ pc[p] = "exit" /\ result[p] = RECOVERY_ACTION_RESET_TO_BACKLOG
        /\ file[arg[p]].status = "backlog" /\ file[arg[p]].recovery_attempts = 1

\* The activity marker of task t exists and is younger than the threshold.
FreshMarker(t) == marker[t] # NoMarker /\ now - marker[t] < Threshold

\* C11 (heartbeat override): for a record with status coding, recovery_attempts
\* < 5, an existing worktree and a parseable last_activity, a recover_if_stuck
\* call made while the activity marker is younger than 2 hours returns
\* no_action and changes nothing, however old last_activity is.
C11_HeartbeatOverride ==
    [][\A p \in Procs :
          (/\ RecoversFrom(p, "coding") /\ worktree[arg[p]]
           /\ file[arg[p]].last_activity.kind # "bad"
           /\ FreshMarker(arg[p]))
          => /\ result'[p] = RECOVERY_ACTION_NONE
             /\ file' = file /\ worktree' = worktree /\ marker' = marker]_vars

\* C11 witness: a call has returned no_action for a coding task whose
\* last_activity is at least 2 hours old and whose marker is fresh.
C11_Witness ==
    \E p \in Procs :
        /\ pc[p] = "exit" /\ result[p] = RECOVERY_ACTION_NONE
        /\ op[p] = "recover_if_stuck"
        /\ file[arg[p]].status = "coding"
        /\ file[arg[p]].recovery_attempts < MAX_RECOVERY_ATTEMPTS
        /\ file[arg[p]].last_activity.kind = "aware"
        /\ now - file[arg[p]].last_activity.wall >= Threshold + Threshold
        /\ worktree[arg[p]] /\ FreshMarker(arg[p])

\* The record of task t is stale by its own timestamp, and the marker does not
\* vouch for it: what the spec calls abandoned.
Abandoned(t) ==
    \/ file[t].last_activity.kind = "bad"
    \/ /\ now - (IF file[t].last_activity.kind = "naive"
                 THEN file[t].last_activity.wall
                 ELSE file[t].last_activity.wall - file[t].last_activity.offset) >= Threshold
       /\ ~FreshMarker(t)

\* The record of task t is below the retry limit and meets the precondition of
\* none of the Cases A-D.
Consistent(t) ==
    /\ file[t].recovery_attempts < MAX_RECOVERY_ATTEMPTS
    /\ ~(file[t].status = "coding" /\ ~worktree[t])
    /\ ~(file[t].status = "coding" /\ worktree[t] /\ Abandoned(t))
    /\ ~(file[t].status = "ready" /\ worktree[t])
    /\ ~(file[t].status = "planning" /\ Abandoned(t))

\* C12 (idempotence): on a record that is already consistent (below the retry
\* limit, with the precondition of none of the Cases A-D), recover_if_stuck
\* returns no_action and changes neither the record nor the filesystem, so the
\* state stays consistent for the next call.
C12_Idempotence ==
    [][\A p \in Procs :
          (Recovers(p) /\ Consistent(arg[p]))
          => /\ result'[p] = RECOVERY_ACTION_NONE
             /\ file' = file /\ worktree' = worktree /\ marker' = marker
             /\ Consistent(arg[p])']_vars

\* C12 witness: a call has returned no_action on a ready record without
\* worktree.
C12_Witness ==
    \E p \in Procs :
        /\ pc[p] = "exit" /\ result[p] = RECOVERY_ACTION_NONE
        /\ op[p] = "recover_if_stuck"
        /\ file[arg[p]].status = "ready" /\ ~worktree[arg[p]]
        /\ Consistent(arg[p])

\* The actions of recover_if_stuck that change the record.
Corrective == {RECOVERY_ACTION_RESET_TO_READY, RECOVERY_ACTION_ZOMBIE_CLEANUP,
               RECOVERY_ACTION_UPDATE_TO_CODING, RECOVERY_ACTION_RESET_TO_BACKLOG,
               RECOVERY_ACTION_MARK_FAILED}

\* What a recover_if_stuck call that loads the record f of task t at time
\* clock returns, with the worktree map wt and the marker map mk.
WouldReturn(f, wt, mk, t, clock) ==
    RecoveryAction(f[t], worktree_exists(wt, t), is_zombie(f[t], clock, mk[t]))

\* C13 as stated: right after recover_if_stuck has applied a corrective
\* transition, with nothing else having happened, a recover_if_stuck call on
\* the task returns no_action.
C13_Original ==
    [][\A p \in Procs :
          (Recovers(p) /\ result'[p] \in Corrective)
          => WouldReturn(file', worktree', marker', arg[p], now') = RECOVERY_ACTION_NONE]_vars

\* C13 amended: right after recover_if_stuck has applied a corrective
\* transition, with nothing else having happened, a recover_if_stuck call on
\* the task returns mark_failed when a counted transition brought
\* recovery_attempts to 5, update_to_coding when a zombie_cleanup could not
\* remove the worktree, and no_action otherwise: at whatever later time when
\* the record was left in a status other than coding, and until the zombie
\* threshold has passed again when it was left in coding.
C13_IdempotentAfterRecovery ==
    [][\A p \in Procs :
          (Recovers(p) /\ result'[p] \in Corrective)
          => LET t == arg[p] IN
             IF /\ result'[p] # RECOVERY_ACTION_MARK_FAILED
                /\ file'[t].recovery_attempts >= MAX_RECOVERY_ATTEMPTS
             THEN WouldReturn(file', worktree', marker', t, now')
                     = RECOVERY_ACTION_MARK_FAILED
             ELSE IF result'[p] = RECOVERY_ACTION_ZOMBIE_CLEANUP /\ worktree'[t]
             THEN WouldReturn(file', worktree', marker', t, now')
                     = RECOVERY_ACTION_UPDATE_TO_CODING
             ELSE \A c \in now..(EndTime + Threshold) :
                     (file'[t].status # "coding" \/ c - now < Threshold)
                     => WouldReturn(file', worktree', marker', t, c)
                           = RECOVERY_ACTION_NONE]_vars

\* C13 witness: a zombie_cleanup has removed the worktree and left the record
\* ready below the retry limit.
C13_Witness ==
    \E p \in Procs :
        /\ pc[p] = "exit" /\ result[p] = RECOVERY_ACTION_ZOMBIE_CLEANUP
        /\ file[arg[p]].status = "ready" /\ ~worktree[arg[p]]
        /\ file[arg[p]].recovery_attempts < MAX_RECOVERY_ATTEMPTS

\* The condition under which the case named a is meant for the record process
\* p has loaded: the limit for mark_failed, status and worktree for Cases A-D.
CasePre(p, a) ==
    LET r == file[arg[p]]
        wt == worktree[arg[p]]
    IN  CASE a = RECOVERY_ACTION_MARK_FAILED      ->
                r.recovery_attempts >= MAX_RECOVERY_ATTEMPTS /\ r.status # "failed"
          [] a = RECOVERY_ACTION_RESET_TO_READY   -> r.status = "coding" /\ ~wt
          [] a = RECOVERY_ACTION_ZOMBIE_CLEANUP   -> r.status = "coding" /\ wt
          [] a = RECOVERY_ACTION_UPDATE_TO_CODING -> r.status = "ready" /\ wt
          [] a = RECOVERY_ACTION_RESET_TO_BACKLOG -> r.status = "planning"

\* The record store after the single write of the case named a.
CaseEffect(p, a) ==
    LET n == file[arg[p]].recovery_attempts
    IN  CASE a = RECOVERY_ACTION_MARK_FAILED      ->
                [Expected(p, "failed", n) EXCEPT ![arg[p]].failure_reason = MaxRetriesReason]
          [] a = RECOVERY_ACTION_RESET_TO_READY   -> Expected(p, "ready", n + 1)
          [] a = RECOVERY_ACTION_ZOMBIE_CLEANUP   -> Expected(p, "ready", n + 1)
          [] a = RECOVERY_ACTION_UPDATE_TO_CODING -> Expected(p, "coding", n)
          [] a = RECOVERY_ACTION_RESET_TO_BACKLOG -> Expected(p, "backlog", n + 1)

\* C14: every recover_if_stuck invocation on a usable record either writes
\* nothing and returns no_action, or applies exactly one case: it returns that
\* case's action, the case's condition held, and the record store differs from
\* the one it loaded by that case's single write and by no other case's.  A
\* call that returns reset_to_ready leaves status ready, never coding.
C14_CaseExclusivity ==
    [][\A p \in Procs :
          Recovers(p)
          => /\ \/ result'[p] = RECOVERY_ACTION_NONE /\ file' = file
                \/ \E a \in Corrective :
                     /\ result'[p] = a /\ CasePre(p, a) /\ file' = CaseEffect(p, a)
                     /\ \A b \in Corrective \ {a} :
                          ~CasePre(p, b) \/ file' # CaseEffect(p, b)
             /\ result'[p] = RECOVERY_ACTION_RESET_TO_READY
                   => file'[arg[p]].status = "ready"]_vars

\* C14 witness: a zombie_cleanup whose worktree removal failed has returned,
\* leaving status ready beside the worktree, with the counter brought to 5.
C14_Witness ==
    \E p \in Procs :
        /\ pc[p] = "exit" /\ result[p] = RECOVERY_ACTION_ZOMBIE_CLEANUP
        /\ file[arg[p]].status = "ready" /\ worktree[arg[p]]
        /\ file[arg[p]].recovery_attempts = MAX_RECOVERY_ATTEMPTS

\* Process p enters a call in this step: it tries the lock.
Calls(p) == pc[p] = "idle" /\ pc'[p] # "idle"

\* C15: when a call tries the lock of a task while another process holds it,
\* task_lock yields False, the call returns lock_failed (recover_if_stuck and
\* start_coding alike), and record, worktree and marker are left as they are.
C15_LockFailed ==
    [][\A p \in Procs :
          (Calls(p) /\ lock[arg'[p]] # {})
          => /\ ~acquired'[p]
             /\ pc'[p] = "exit"
             /\ result'[p] = IF op'[p] = "recover_if_stuck"
                             THEN RECOVERY_ACTION_LOCK_FAILED
                             ELSE START_CODING_LOCK_FAILED
             /\ lock' = lock
             /\ file' = file /\ worktree' = worktree /\ marker' = marker]_vars

\* C15 witness: a start_coding call has returned lock_failed while another
\* process is inside recover_if_stuck on the same task.
C15_Witness ==
    \E p, q \in Procs :
        /\ p # q /\ arg[p] = arg[q]
        /\ pc[p] = "exit" /\ op[p] = "start_coding" /\ ~acquired[p]
        /\ result[p] = START_CODING_LOCK_FAILED
        /\ pc[q] = "loaded" /\ op[q] = "recover_if_stuck"

\* C16: when the state record is absent, corrupt or lacks a field, load_state
\* gives None, the call under the lock returns no_state (recover_if_stuck and
\* start_coding alike), and record, worktree and marker are left as they are.
C16_NoState ==
    [][\A p \in Procs :
          (pc[p] = "locked" /\ pc'[p] # "locked" /\ file[arg[p]] \in Unusable)
          => /\ load_state(file, arg[p]) = None
             /\ pc'[p] = "exit"
             /\ result'[p] = IF op[p] = "recover_if_stuck"
                             THEN RECOVERY_ACTION_NO_STATE
                             ELSE START_CODING_NO_STATE
             /\ file' = file /\ worktree' = worktree /\ marker' = marker]_vars

\* C16 witness: a start_coding call has returned no_state on a record that
\* lacks a required field, and no worktree exists.
C16_Witness ==
    \E p \in Procs :
        /\ pc[p] = "exit" /\ op[p] = "start_coding" /\ acquired[p]
        /\ result[p] = START_CODING_NO_STATE
        /\ file[arg[p]] = FileMissingField
        /\ ~worktree[arg[p]]

\* Process p, in this step, runs start_coding's checks and _create_worktree on
\* the record of its task.
StartsFrom(p) == pc[p] = "locked" /\ op[p] = "start_coding" /\ pc'[p] # "locked"

\* The record of p's task has status ready and is below the retry limit.
Startable(p) ==
    /\ HasRecord(arg[p])
    /\ file[arg[p]].status = "ready"
    /\ file[arg[p]].recovery_attempts < MAX_RECOVERY_ATTEMPTS

C19_StartCodingGuards ==
    [][\A p \in Procs :
          /\ (/\ op[p] = "start_coding" /\ pc[p] \in {"locked", "created"}
              /\ pc'[p] # pc[p]
              /\ (file' # file \/ worktree' # worktree \/ marker' # marker))
                => Startable(p)
          /\ (StartsFrom(p) /\ HasRecord(arg[p]) /\ ~Startable(p))
                => /\ pc'[p] = "exit"
                   /\ result'[p] =
                        IF file[arg[p]].recovery_attempts >= MAX_RECOVERY_ATTEMPTS
                        THEN START_CODING_MAX_RETRIES
                        ELSE START_CODING_WRONG_STATUS]_vars

\* C19 witness: start_coding has returned max_retries on a coding record that
\* is over the limit.
C19_Witness ==
    \E p \in Procs :
        /\ pc[p] = "exit" /\ op[p] = "start_coding"
        /\ result[p] = START_CODING_MAX_RETRIES
        /\ file[arg[p]].status = "coding"
        /\ file[arg[p]].recovery_attempts > MAX_RECOVERY_ATTEMPTS

\* The processes whose recover_if_stuck call has returned reset_to_ready.
Resetters == {p \in Procs : result[p] = RECOVERY_ACTION_RESET_TO_READY}

\* C20: when several processes call recover_if_stuck once each on a task that
\* is coding without a worktree with recovery_attempts <= 3, then in every
\* interleaving: at most one call returns reset_to_ready and every call returns
\* reset_to_ready, no_action or lock_failed; the record is ready exactly when
\* one call has returned reset_to_ready, and once all have returned one has;
\* and the only write is that call's, which raises recovery_attempts by one.
C20_NoLostUpdate ==
    /\ [](/\ Cardinality(Resetters) <= 1
          /\ \A t \in tasks :
                file[t].status = IF Resetters = {} THEN "coding" ELSE "ready"
          /\ \A p \in Procs :
                pc[p] \in {"exit", "returned"}
                => result[p] \in {RECOVERY_ACTION_RESET_TO_READY,
                                  RECOVERY_ACTION_NONE,
                                  RECOVERY_ACTION_LOCK_FAILED}
          /\ (\A p \in Procs : pc[p] = "returned") => Cardinality(Resetters) = 1)
    /\ [][\/ file' = file
          \/ \E p \in Procs :
               /\ Recovers(p) /\ p \notin Resetters /\ p \in Resetters'
               /\ file' = Expected(p, "ready", file[arg[p]].recovery_attempts + 1)]_vars

\* C20 witness: all calls have returned, one with reset_to_ready, another with
\* no_action and, when there are more than two, the rest with either or with
\* lock_failed; the record is ready with the counter at 4.
C20_Witness ==
    /\ \A p \in Procs : pc[p] = "returned"
    /\ \E p, q \in Procs :
        /\ result[p] = RECOVERY_ACTION_RESET_TO_READY
        /\ result[q] = RECOVERY_ACTION_NONE
    /\ file["T1"].status = "ready"
    /\ file["T1"].recovery_attempts = MAX_RECOVERY_ATTEMPTS - 1

\* The documents of the complete records.
StoreDocuments == {to_json(s) : s \in StoreRecords}

\* Process p calls load_state in this step.
Loads(p) == pc[p] = "idle" /\ op'[p] = "load_state"

\* C21: while save_state runs, fails or has crashed with its temporary file
\* left behind, the canonical file is absent (no record was ever saved) or
\* holds a complete document; it changes only in the one step that replaces
\* it with the complete new document; so a load_state without the lock returns
\* None when no record exists yet, and otherwise the complete record that the
\* canonical file holds: the previous one until the replace, the new one after.
C21_AtomicSave ==
    /\ [](\A t \in Tasks : file[t] \in {FileAbsent} \cup StoreDocuments)
    /\ [][\A t \in Tasks :
            /\ file[t] # FileAbsent => file'[t] # FileAbsent
            /\ file'[t] # file[t]
                 => \E p \in Procs :
                      /\ pc[p] = "written" /\ arg[p] = t /\ pc'[p] = "exit"
                      /\ file'[t] = to_json(state[p])]_vars
    /\ [][\A p \in Procs :
            Loads(p)
            => IF file[arg'[p]] = FileAbsent
               THEN result'[p] = None
               ELSE /\ result'[p] \in StoreRecords
                    /\ to_json(result'[p]) = file[arg'[p]]]_vars

\* C21 witness: a process has died inside save_state leaving a partly written
\* temporary file, and a load_state of that task has returned the complete
\* record of the canonical file.
C21_Witness ==
    \E p, q \in Procs :
        /\ pc[p] = "crashed" /\ temp[arg[p]] = FileCorruptJson
        /\ pc[q] = "exit" /\ op[q] = "load_state" /\ arg[q] = arg[p]
        /\ result[q] \in StoreRecords
        /\ to_json(result[q]) = file[arg[q]]

\* C23: when save_state returns, load_state of the same task_id gives a record
\* equal to the saved one in every field, whatever the canonical file held
\* before; and every load_state returns what the latest completed save wrote.
C23_RoundTrip ==
    [][\A p \in Procs :
          /\ (pc[p] = "written" /\ pc'[p] = "exit")
                => /\ from_json(file'[arg[p]]) = state[p]
                   /\ \A k \in DOMAIN state[p] :
                        from_json(file'[arg[p]])[k] = state[p][k]
          /\ Loads(p) => result'[p] = from_json(file[arg'[p]])]_vars

\* C23 witness: a record with an empty failure_reason has been saved over an
\* existing record and another process has loaded it back unchanged.
C23_Witness ==
    \E p, q \in Procs :
        /\ pc[p] = "exit" /\ op[p] = "save_state" /\ result[p] = None
        /\ state[p].failure_reason = ""
        /\ pc[q] = "exit" /\ op[q] = "load_state" /\ arg[q] = arg[p]
        /\ result[q] = state[p]

ChecksZombie(p) == pc[p] = "idle" /\ op'[p] = "is_zombie"

\* The age in minutes of a last_activity that parses: a string without
\* offset is read as UTC, one with an offset is brought to UTC.
ActivityAge(ts) == now - (IF ts.kind = "naive" THEN ts.wall ELSE ts.wall - ts.offset)

\* The threshold in minutes.
AgeLimit == ZOMBIE_THRESHOLD_HOURS * 60

\* The marker of task t is absent, cannot be read, or is at least 2 hours old.
NoLifeSign(t) ==
    \/ marker[t] = NoMarker
    \/ marker[t] = MarkerUnreadable
    \/ now - marker[t] >= AgeLimit

C26_GitNeverRaises ==
    \A p \in Procs : pc[p] # "raised"

\* Process p is inside a call whose task_lock has acquired the lock.
HoldsLock(p) == InCritical(p) \/ (pc[p] = "raised" /\ acquired[p])

C28_IndependentLocks ==
    [][\A p \in Procs :
          /\ Calls(p) => (acquired'[p] <=> lock[arg'[p]] = {})
          /\ pc'[p] # pc[p]
                => \A t \in Tasks \ {arg'[p]} :
                     /\ file'[t] = file[t]
                     /\ worktree'[t] = worktree[t]
                     /\ marker'[t] = marker[t]
                     /\ lock'[t] = lock[t]]_vars

\* C28 witness: two calls are inside their critical sections at the same
\* time, one on each task, and the record of the one task has been rewritten
\* while the lock of the other was held.
C28_Witness ==
    \E p, q \in Procs :
        /\ arg[p] # arg[q]
        /\ pc[p] = "exit" /\ acquired[p] /\ result[p] = RECOVERY_ACTION_RESET_TO_READY
        /\ file[arg[p]].recovery_attempts = 1
        /\ pc[q] = "created" /\ acquired[q]

\* C29: the result of worktree_exists for a task changes only in a step of a
\* process that holds the Task Lock of that task; touch_activity, is_zombie
\* and worktree_exists, which run without the lock, never change it.
C29_WorktreeUnderLock ==
    [][\A t \in Tasks :
          worktree_exists(worktree', t) # worktree_exists(worktree, t)
          => \E p \in Procs :
               /\ InCritical(p) /\ arg[p] = t /\ p \in lock[t]
               /\ pc'[p] # pc[p]]_vars

\* C30: start_coding returns success only with the activity marker in place:
\* the step that writes the coding record and returns success leaves both the
\* worktree and the marker existing, so a failed marker touch does not end in
\* success.
C30_MarkerBeforeCoding ==
    [][\A p \in Procs :
          (/\ pc[p] = "created" /\ pc'[p] = "exit"
           /\ result'[p] = START_CODING_SUCCESS)
          => /\ file'[arg[p]].status = "coding"
             /\ worktree'[arg[p]]
             /\ marker'[arg[p]] # NoMarker]_vars

\* The results that stand for a counted attempt.
Counting == {RECOVERY_ACTION_RESET_TO_READY, RECOVERY_ACTION_ZOMBIE_CLEANUP,
             RECOVERY_ACTION_RESET_TO_BACKLOG, START_CODING_WORKTREE_FAILED}

\* C31: the retry bound is hard.  From a record with recovery_attempts <= 5
\* the counter never exceeds 5; it moves in steps of one; every call that
\* returns reset_to_ready, zombie_cleanup, reset_to_backlog or worktree_failed
\* found it below 5 and raised it by exactly one, so there are at most 5 such
\* transitions; and every change from coding back to ready is one of them, so
\* a task cannot flap between ready and coding indefinitely.
C31_HardRetryBound ==
    /\ [](\A t \in Tasks :
            HasRecord(t) => file[t].recovery_attempts \in 0..MAX_RECOVERY_ATTEMPTS)
    /\ [][\A t \in Tasks :
            HasRecord(t) =>
              /\ HasRecord(t)'
              /\ file'[t].recovery_attempts - file[t].recovery_attempts \in {0, 1}
              /\ (file[t].status = "coding" /\ file'[t].status = "ready")
                   => file'[t].recovery_attempts = file[t].recovery_attempts + 1
              /\ \A p \in Procs :
                   (/\ pc[p] # "exit" /\ pc'[p] = "exit" /\ arg'[p] = t
                    /\ result'[p] \in Counting)
                   => /\ file[t].recovery_attempts < MAX_RECOVERY_ATTEMPTS
                      /\ file'[t].recovery_attempts = file[t].recovery_attempts + 1]_vars

\* C31 witness: a failed worktree creation was the fifth counted attempt of a
\* task that is still ready.
C31_Witness ==
    \E p \in Procs :
        /\ pc[p] = "exit" /\ result[p] = START_CODING_WORKTREE_FAILED
        /\ file[arg[p]].status = "ready"
        /\ file[arg[p]].recovery_attempts = MAX_RECOVERY_ATTEMPTS

\* ------------------------------------------- a process dies in start_coding

\* The process dies in start_coding after _create_worktree returned True and
\* before save_state replaced the file: before or after touch_activity.  The
\* record on disk is the one it loaded, the worktree stays, and the operating
\* system closes the lock file and so drops the flock.  state[p] keeps the
\* record the dead process had loaded.
StartCodingCrash(p) ==
    /\ pc[p] = "created"
    /\ \E touched \in BOOLEAN :
         IF touched
         THEN /\ worktree' = touched_worktree(worktree, arg[p])
              /\ marker' = touched_marker(marker, arg[p], now)
         ELSE UNCHANGED <<worktree, marker>>
    /\ lock' = [lock EXCEPT ![arg[p]] = handle_closed(@, p)]
    /\ pc' = [pc EXCEPT ![p] = "crashed"]
    /\ acquired' = [acquired EXCEPT ![p] = FALSE]
    /\ UNCHANGED <<tasks, file, temp, now, op, arg, state, result>>

NextCrash ==
    \/ \E p \in Procs, t \in tasks, o \in Ops : TaskLockAcquire(p, t, o)
    \/ \E p \in Procs, t \in tasks, o \in Ops : TaskLockTimeout(p, t, o)
    \/ \E p \in Procs : RecoverLoad(p)
    \/ \E p \in Procs : RecoverApply(p)
    \/ \E p \in Procs : StartCodingCreate(p)
    \/ \E p \in Procs : StartCodingCommit(p)
    \/ \E p \in Procs : StartCodingCommitRaises(p)
    \/ \E p \in Procs : StartCodingCrash(p)
    \/ \E p \in Procs : Return(p)
    \/ \E p \in Procs : Propagate(p)
    \/ Tick

\* Tasks ready to be started: a first start and a last countable attempt.
InitCrashRecords(t) ==
    { TaskState(t, "ready", n, ts, NoReason) :
        n \in {0, MAX_RECOVERY_ATTEMPTS - 1},
        ts \in {BadTimestamp, Timestamp("aware", StartTime, 0)} }

InitCrash ==
    /\ tasks = {"T1"}
    /\ \E f \in InitCrashRecords("T1"), w \in InitWorktrees :
         /\ file = [t \in Tasks |-> IF t = "T1" THEN f ELSE FileAbsent]
         /\ worktree = [t \in Tasks |-> t = "T1" /\ w[1]]
         /\ marker = [t \in Tasks |-> IF t = "T1" THEN w[2] ELSE NoMarker]
    /\ InitProcs

SpecCrash == InitCrash /\ [][NextCrash]_vars

\* A start_coding call of the process stopped between the creation of the
\* worktree and the write of the record: the process died, or save_state
\* raised.
Interrupted(p) ==
    /\ pc[p] = "created"
    /\ pc'[p] \in {"crashed", "raised"}

\* C32: a process that crashes, or fails to persist, inside start_coding after
\* the worktree was created leaves the record as it was (ready, counter below
\* 5) with the worktree present, and a crash leaves the lock free; the next
\* recover_if_stuck that acquires the lock and finds that record with the
\* worktree present returns update_to_coding and writes status coding with
\* recovery_attempts unchanged.
C32_CrashAfterCreate ==
    [][\A p \in Procs :
          /\ Interrupted(p) =>
               /\ file'[arg[p]] = file[arg[p]]
               /\ file'[arg[p]].status = "ready"
               /\ file'[arg[p]].recovery_attempts < MAX_RECOVERY_ATTEMPTS
               /\ worktree_exists(worktree', arg[p])
               /\ pc'[p] = "crashed" => lock'[arg[p]] = {}
          /\ (/\ Recovers(p)
              /\ worktree_exists(worktree, arg[p])
              /\ \E q \in Procs : /\ pc[q] = "crashed" /\ arg[q] = arg[p]
                                  /\ file[arg[p]] = state[q])
             => /\ result'[p] = RECOVERY_ACTION_UPDATE_TO_CODING
                /\ file'[arg[p]].status = "coding"
                /\ file'[arg[p]].recovery_attempts = file[arg[p]].recovery_attempts
                /\ file'[arg[p]].last_activity = utc_now(now)]_vars

\* C32 witness: after a crash in start_coding, and two hours later, a
\* recover_if_stuck call has synced the record the dead process left to coding.
C32_Witness ==
    \E p, q \in Procs :
        /\ pc[q] = "crashed" /\ op[q] = "start_coding" /\ arg[q] = arg[p]
        /\ pc[p] = "exit" /\ result[p] = RECOVERY_ACTION_UPDATE_TO_CODING
        /\ file[arg[p]] = SyncedToCoding(state[q], now)
        /\ now >= StartTime + Threshold
        /\ worktree[arg[p]]

\* The results of a call that writes nothing.
Quiet == {RECOVERY_ACTION_NONE, RECOVERY_ACTION_LOCK_FAILED, RECOVERY_ACTION_NO_STATE,
          START_CODING_WRONG_STATUS, START_CODING_MAX_RETRIES}

\* C33: every write of recover_if_stuck or start_coding that changes status
\* sets last_activity to the current UTC time, and a call that returns
\* no_action, lock_failed, no_state, wrong_status or max_retries leaves
\* last_activity, with the whole file, unchanged.
C33_ActivityOnStatusChange ==
    [][\A t \in Tasks :
          /\ (HasRecord(t) /\ HasRecord(t)' /\ file'[t].status # file[t].status)
               => file'[t].last_activity = utc_now(now)
          /\ \A p \in Procs :
               (/\ pc[p] # "exit" /\ pc'[p] = "exit" /\ arg'[p] = t
                /\ result'[p] \in Quiet)
               => /\ file'[t] = file[t]
                  /\ HasRecord(t) => file'[t].last_activity = file[t].last_activity]_vars

\* C33 witness: an hour after the record was last written, start_coding has
\* moved it to coding and stamped it with the current time.
C33_Witness ==
    \E p \in Procs :
        /\ pc[p] = "exit" /\ result[p] = START_CODING_SUCCESS
        /\ now > StartTime
        /\ file[arg[p]].status = "coding"
        /\ file[arg[p]].last_activity = utc_now(now)

\* ------------------------------------------ records that carry an old reason

\* Records of tasks that are not failed, some with a failure_reason left from
\* an earlier failure (a failed task put back by hand), at the last countable
\* attempt and at the limit.
Init34Records(t) ==
    { TaskState(t, st, n, BadTimestamp, fr) :
        st \in {"planning", "ready", "coding", "done"},
        n \in {MAX_RECOVERY_ATTEMPTS - 1, MAX_RECOVERY_ATTEMPTS},
        fr \in {NoReason, "Previous failure"} }

Init34 ==
    /\ tasks = {"T1"}
    /\ \E f \in Init34Records("T1"), w \in InitWorktrees :
         /\ file = [t \in Tasks |-> IF t = "T1" THEN f ELSE FileAbsent]
         /\ worktree = [t \in Tasks |-> t = "T1" /\ w[1]]
         /\ marker = [t \in Tasks |-> IF t = "T1" THEN w[2] ELSE NoMarker]
    /\ InitProcs

Spec34 == Init34 /\ [][Next]_vars

\* C34: failure_reason is written only by the transition to failed.  A step
\* that changes failure_reason is the mark_failed step of a recover_if_stuck
\* call: it takes a non-failed record to failed and writes the max-retries
\* reason; every other step of recover_if_stuck and start_coding leaves
\* failure_reason as it was, and no step changes task_id.
C34_ReasonOnlyOnFailed ==
    [][\A t \in Tasks :
          HasRecord(t) =>
            /\ HasRecord(t)'
            /\ file'[t].task_id = file[t].task_id
            /\ \A p \in Procs :
                 (pc[p] # "exit" /\ pc'[p] = "exit" /\ arg'[p] = t) =>
                   IF result'[p] = RECOVERY_ACTION_MARK_FAILED /\ op'[p] = "recover_if_stuck"
                   THEN /\ file[t].status # "failed"
                        /\ file'[t].status = "failed"
                        /\ file'[t].failure_reason = MaxRetriesReason
                   ELSE file'[t].failure_reason = file[t].failure_reason
            /\ file'[t].failure_reason # file[t].failure_reason
                 => \E p \in Procs : /\ pc[p] = "loaded" /\ pc'[p] = "exit"
                                     /\ result'[p] = RECOVERY_ACTION_MARK_FAILED]_vars

\* C34 witness: a coding task that carried an old failure_reason was reset to
\* ready, and the reason is still there.
C34_Witness ==
    \E p \in Procs :
        /\ pc[p] = "exit" /\ result[p] = RECOVERY_ACTION_RESET_TO_READY
        /\ file[arg[p]].status = "ready"
        /\ file[arg[p]].failure_reason = "Previous failure"

\* C35: for a planning task the zombie check is a pure timestamp check: every
\* recover_if_stuck call that loads a planning record with recovery_attempts
\* below 5 whose last_activity is unparseable or at least 2 hours old resets
\* it to backlog, whatever exists under .worktrees/{task_id}, and a planning
\* record with a younger last_activity is left alone.
C35_PlanningTimestampOnly ==
    [][\A p \in Procs :
          (/\ Recovers(p)
           /\ state[p].status = "planning"
           /\ state[p].recovery_attempts < MAX_RECOVERY_ATTEMPTS)
          => IF \/ state[p].last_activity.kind = "bad"
                \/ ActivityAge(state[p].last_activity) >= AgeLimit
             THEN /\ result'[p] = RECOVERY_ACTION_RESET_TO_BACKLOG
                  /\ file'[arg[p]].status = "backlog"
             ELSE /\ result'[p] = RECOVERY_ACTION_NONE
                  /\ file'[arg[p]] = file[arg[p]]]_vars

\* The changes of status the two functions make below the retry limit.
StatusMoves == {<<"coding", "ready">>, <<"ready", "coding">>, <<"planning", "backlog">>}

\* C36: status stays within the six defined values; every change of status
\* made by recover_if_stuck or start_coding is coding to ready, ready to
\* coding, planning to backlog, or a non-failed status to failed with
\* recovery_attempts >= 5; and a backlog record with recovery_attempts < 5 is
\* never changed.
C36_StatusMoves ==
    /\ [](\A t \in Tasks : HasRecord(t) => file[t].status \in Statuses)
    /\ [][\A t \in Tasks :
            HasRecord(t) =>
              /\ HasRecord(t)'
              /\ file'[t].status # file[t].status
                   => \/ <<file[t].status, file'[t].status>> \in StatusMoves
                      \/ /\ file[t].status # "failed"
                         /\ file'[t].status = "failed"
                         /\ file[t].recovery_attempts >= MAX_RECOVERY_ATTEMPTS
              /\ (/\ file[t].status = "backlog"
                  /\ file[t].recovery_attempts < MAX_RECOVERY_ATTEMPTS)
                   => file'[t] = file[t]]_vars

\* C36 witness: a planning task was reset to backlog, and a later
\* recover_if_stuck call on the backlog record has returned no_action.
C36_Witness ==
    \E p \in Procs :
        /\ pc[p] = "exit" /\ op[p] = "recover_if_stuck"
        /\ result[p] = RECOVERY_ACTION_NONE /\ acquired[p]
        /\ file[arg[p]].status = "backlog"
        /\ file[arg[p]].recovery_attempts = 1
        /\ now > file[arg[p]].last_activity.wall

\* ------------------------------------------------ records below the limit

\* Records of live tasks with recovery_attempts below the limit: a first
\* attempt and the last countable one.
Init37Records(t) ==
    { TaskState(t, st, n, ts, NoReason) :
        st \in {"planning", "ready", "coding"},
        n \in {0, MAX_RECOVERY_ATTEMPTS - 1},
        ts \in {BadTimestamp, Timestamp("aware", StartTime, 0)} }

Init37 ==
    /\ tasks = {"T1"}
    /\ \E f \in Init37Records("T1"), w \in InitWorktrees :
         /\ file = [t \in Tasks |-> IF t = "T1" THEN f ELSE FileAbsent]
         /\ worktree = [t \in Tasks |-> t = "T1" /\ w[1]]
         /\ marker = [t \in Tasks |-> IF t = "T1" THEN w[2] ELSE NoMarker]
    /\ InitProcs

Spec37 == Init37 /\ [][Next]_vars

\* C37: from a record with recovery_attempts < 5, in every state reachable by
\* recover_if_stuck, start_coding and touch_activity calls a record in status
\* coding has recovery_attempts < 5: neither start_coding nor Case C puts an
\* exhausted task into coding.
C37_CodingBelowLimit ==
    \A t \in Tasks :
        (HasRecord(t) /\ file[t].status = "coding")
        => file[t].recovery_attempts < MAX_RECOVERY_ATTEMPTS

\* C37 witness: the fifth attempt was counted on a ready task, and the
\* start_coding call that followed was refused with max_retries.
C37_Witness ==
    \E p \in Procs :
        /\ pc[p] = "exit" /\ result[p] = START_CODING_MAX_RETRIES
        /\ file[arg[p]].status = "ready"
        /\ file[arg[p]].recovery_attempts = MAX_RECOVERY_ATTEMPTS

\* A touch_activity call on task t: the marker, and with it the directory,
\* is written and no call of a process moves.
Heartbeat(t) ==
    /\ pc' = pc /\ file' = file /\ now' = now
    /\ marker'[t] # marker[t] \/ worktree'[t] # worktree[t]

\* C38: a heartbeat does not change the fate of a task that is not coding.
\* After a touch_activity call on a task whose record is not in status coding
\* a recover_if_stuck call returns what it would have returned before the
\* heartbeat; in particular a ready task without a worktree stays one on which
\* recover_if_stuck returns no_action.
C38_HeartbeatHarmless ==
    [][\A t \in Tasks :
          (Heartbeat(t) /\ HasRecord(t) /\ file[t].status # "coding")
          => WouldReturn(file', worktree', marker', t, now')
               = WouldReturn(file, worktree, marker, t, now)]_vars

\* ------------------------------------------- pollers left alone with a task

\* Records of a task in any of the live statuses and done, at a first attempt
\* and at the last countable one, with a last_activity that is unparseable or
\* current.
InitPollRecords(t) ==
    { TaskState(t, st, n, ts, NoReason) :
        st \in {"planning", "ready", "coding", "done"},
        n \in {0, MAX_RECOVERY_ATTEMPTS - 1},
        ts \in {BadTimestamp, Timestamp("aware", StartTime, 0)} }

InitPoll ==
    /\ tasks = {"T1"}
    /\ \E f \in InitPollRecords("T1"), w \in InitWorktrees :
         /\ file = [t \in Tasks |-> IF t = "T1" THEN f ELSE FileAbsent]
         /\ worktree = [t \in Tasks |-> t = "T1" /\ w[1]]
         /\ marker = [t \in Tasks |-> IF t = "T1" THEN w[2] ELSE NoMarker]
    /\ InitProcs

\* A polling process calls recover_if_stuck on a known task.
Poll(p) ==
    \E t \in tasks : \/ TaskLockAcquire(p, t, "recover_if_stuck")
                     \/ TaskLockTimeout(p, t, "recover_if_stuck")

\* The pollers call recover_if_stuck and nothing else; time passes.
NextPoll ==
    \/ \E p \in Procs, t \in tasks : TaskLockAcquire(p, t, "recover_if_stuck")
    \/ \E p \in Procs, t \in tasks : TaskLockTimeout(p, t, "recover_if_stuck")
    \/ \E p \in Procs : RecoverLoad(p)
    \/ \E p \in Procs : RecoverApply(p)
    \/ \E p \in Procs : Return(p)
    \/ Tick

\* Every poller keeps polling, and a call that was entered runs to its end.
FairPolling ==
    \A p \in Procs :
        /\ WF_vars(Poll(p))
        /\ WF_vars(RecoverLoad(p))
        /\ WF_vars(RecoverApply(p))
        /\ WF_vars(Return(p))

SpecPoll == InitPoll /\ [][NextPoll]_vars /\ FairPolling

\* A recover_if_stuck call that loads the record of task t now would return
\* no_action.
Settled(t) ==
    /\ HasRecord(t)
    /\ WouldReturn(file, worktree, marker, t, now) = RECOVERY_ACTION_NONE

\* Nothing of the task's record, worktree or marker changes in the step.
Untouched == file' = file /\ worktree' = worktree /\ marker' = marker

====
